---- MODULE Spec2Model ----
(***************************************************************************)
(* Consistent hashing (ConsistentHash) and the sharded key/value store     *)
(* built on it (ShardedDatabase), src/examples/sharding/                   *)
(* consistent_hashing.py.                                                  *)
(*                                                                         *)
(* Python values are modelled as follows.                                  *)
(*   - str, None, True, False : TLA+ strings ("None", "True", "False").    *)
(*   - VirtualNode            : a record carrying cls = "VirtualNode".     *)
(*   - an int that is handed to a comparison : IntObj(n), a record         *)
(*     carrying cls = "int", so that a comparison of a VirtualNode with an *)
(*     int can be told apart from a comparison of two ints.                *)
(*   - dict whose iteration order is used (shards, each shard's map) : a   *)
(*     sequence of <<key, value>> pairs in insertion order.                *)
(*   - a call : a record [exc, ret, ...state after the call]; exc is       *)
(*     "none" or the name of the exception that left the call.             *)
(***************************************************************************)
EXTENDS Integers, Sequences, FiniteSets, TLC

VARIABLES
    hashOf,          \* the digest function: string -> ring position
    virtual_nodes,   \* ConsistentHash.virtual_nodes
    hash_ring,       \* ConsistentHash.hash_ring : list of VirtualNode
    nodes,           \* ConsistentHash.nodes : node id -> list of VirtualNode
    shards,          \* ShardedDatabase.shards : ordered dict node id -> ordered dict
    last,            \* the last completed call: [op, arg, exc, ret, stats, ...]
    ref,             \* one plain dict that receives the same set calls
    threads,         \* SpecConc: each thread's position in its call
    master,          \* SpecRepl: the MasterDatabase
    replica,         \* SpecRepl: one ReplicaDatabase and its worker thread
    now,             \* SpecRepl: what time.time() returns
    lru_cache,       \* SpecLRU: an LRUCache
    recency,         \* SpecLRU: the keys in the order of their last successful get or put
    write_back,      \* SpecWriteBack: a WriteBackCache
    storage,         \* SpecWriteBack: the dict the storage callback writes
    unflushed,       \* SpecWriteBack: the pairs put since the last flush
    window,          \* SpecStream: the TumblingWindow of a StreamProcessor
    handed,          \* SpecStream: the event lists handed to the processors
    arrived,         \* SpecStream: the events passed to add_event
    servers,         \* SpecBalancer: the list of Server objects
    algorithm        \* SpecBalancer: a WeightedRoundRobin

\* The variables of the sharding example, of the replication example, of the
\* caching example, of the stream example and of the load-balancing example.
shardVars == <<hashOf, virtual_nodes, hash_ring, nodes, shards, ref, threads>>

replVars == <<master, replica, now>>

cacheVars == <<lru_cache, recency, write_back, storage, unflushed>>

streamVars == <<window, handed, arrived>>

balancerVars == <<servers, algorithm>>

\* The variables the sharding example does not use.
others == <<replVars, cacheVars, streamVars, balancerVars>>

vars == <<shardVars, last, others>>

\* An example that a specification does not run holds no object.
ReplIdle == master = <<>> /\ replica = <<>> /\ now = 0

CacheIdle ==
    /\ lru_cache = <<>>
    /\ recency = <<>>
    /\ write_back = <<>>
    /\ storage = <<>>
    /\ unflushed = <<>>

StreamIdle == window = <<>> /\ handed = <<>> /\ arrived = <<>>

BalancerIdle == servers = <<>> /\ algorithm = <<>>

OthersIdle == ReplIdle /\ CacheIdle /\ StreamIdle /\ BalancerIdle

ShardIdle ==
    /\ hashOf = <<>>
    /\ virtual_nodes = 0
    /\ hash_ring = <<>>
    /\ nodes = <<>>
    /\ shards = <<>>
    /\ ref = <<>>
    /\ threads = <<>>

(***************************************************************************)
(* The universe of the model.                                              *)
(***************************************************************************)
\* Ring positions are 0 .. HashSpace-1 (the code's space is 0 .. 2^128-1).
HashSpace == 15

\* virtual_nodes when the constructor's caller does not give it.
DefaultVirtualNodes == 3

\* shard1 and shard2 are the ids of the demonstration; nodeX stands for any
\* other id, whose markers may fall anywhere on the ring.
NodeIds == {"shard1", "shard2", "nodeX"}

\* "shard1:0" is also the virtual key of shard1's marker 0.
Keys == {"user_0", "shard1:0"}

Values == {"data_0", "data_1"}

\* f"{node}:{i}"
VirtualKey(node, i) == node \o ":" \o ToString(i)

VirtualKeys == {VirtualKey(n, i) : n \in NodeIds, i \in 0 .. DefaultVirtualNodes - 1}

\* The string whose digest the model leaves open.
FreeKeys == {VirtualKey("nodeX", 0)}

\* The order of the MD5 digests of the demonstration's strings (2 * rank + 1):
\*   shard1:1 < shard1:0 < shard2:2 < shard2:1 < user_0 < shard2:0 < shard1:2
\* with nodeX's other two markers below them all and between two of them.
Md5Rank ==
    [s \in (VirtualKeys \cup Keys) \ FreeKeys |->
        CASE s = "nodeX:2"  -> 0
          [] s = "shard1:1" -> 1
          [] s = "shard1:0" -> 3
          [] s = "nodeX:1"  -> 4
          [] s = "shard2:2" -> 5
          [] s = "shard2:1" -> 7
          [] s = "user_0"   -> 9
          [] s = "shard2:0" -> 11
          [] s = "shard1:2" -> 13]

\* The digest functions of the model: the real order on the demonstration's
\* strings, and every placement of nodeX's first marker (between, above or
\* below the others, on a marker of another node, on one of its own, on a key).
HashTables == {free @@ Md5Rank : free \in [FreeKeys -> 0 .. HashSpace - 1]}

(***************************************************************************)
(* Python helpers.                                                         *)
(***************************************************************************)
IntObj(n) == [cls |-> "int", val |-> n]

\* A marker that is given replica index 0 whatever its index.
VirtualNode_index0(physical_node, index, hash_value) ==
    [cls |-> "VirtualNode", physical_node |-> physical_node, index |-> 0,
     hash_value |-> hash_value]

VirtualNode(physical_node, index, hash_value) ==
    [cls |-> "VirtualNode", physical_node |-> physical_node,
     index |-> index, hash_value |-> hash_value]

\* x < y: defined between two ints; a VirtualNode (a dataclass without
\* order=True) has no __lt__, so any comparison with one raises TypeError.
py_lt(x, y) ==
    IF x.cls = "int" /\ y.cls = "int"
    THEN (IF x.val < y.val THEN "True" ELSE "False")
    ELSE "TypeError"

\* list.insert(i, x) and list.pop(i), i counted from 0.
list_insert(a, i, x) == SubSeq(a, 1, i) \o <<x>> \o SubSeq(a, i + 1, Len(a))

list_pop(a, i) == SubSeq(a, 1, i) \o SubSeq(a, i + 2, Len(a))

\* Ordered dict: keys, lookup, d[k] = v (a new key goes last, an old one keeps
\* its place), del d[k].
dict_keys(d) == {d[i][1] : i \in 1 .. Len(d)}

dict_index(d, k) == CHOOSE i \in 1 .. Len(d) : d[i][1] = k

dict_get(d, k) == d[dict_index(d, k)][2]

dict_set(d, k, v) ==
    IF k \in dict_keys(d)
    THEN [d EXCEPT ![dict_index(d, k)] = <<k, v>>]
    ELSE Append(d, <<k, v>>)

dict_del(d, k) == list_pop(d, dict_index(d, k) - 1)

(***************************************************************************)
(* bisect, with key = lambda x: x.hash_value.  The key function is applied *)
(* to the elements of the list; bisect_right and bisect_left compare the   *)
(* probe x as it is given, insort applies the key to x first.              *)
(***************************************************************************)
key(x) == IntObj(x.hash_value)

RECURSIVE bisect_right_loop(_, _, _, _)
bisect_right_loop(a, x, lo, hi) ==
    IF lo < hi
    THEN LET mid == (lo + hi) \div 2
             c   == py_lt(x, key(a[mid + 1]))
         IN  IF c = "TypeError" THEN [exc |-> "TypeError", idx |-> 0]
             ELSE IF c = "True" THEN bisect_right_loop(a, x, lo, mid)
             ELSE bisect_right_loop(a, x, mid + 1, hi)
    ELSE [exc |-> "none", idx |-> lo]

bisect_right(a, x) == bisect_right_loop(a, x, 0, Len(a))

RECURSIVE bisect_left_loop(_, _, _, _)
bisect_left_loop(a, x, lo, hi) ==
    IF lo < hi
    THEN LET mid == (lo + hi) \div 2
             c   == py_lt(key(a[mid + 1]), x)
         IN  IF c = "TypeError" THEN [exc |-> "TypeError", idx |-> 0]
             ELSE IF c = "True" THEN bisect_left_loop(a, x, mid + 1, hi)
             ELSE bisect_left_loop(a, x, lo, mid)
    ELSE [exc |-> "none", idx |-> lo]

bisect_left(a, x) == bisect_left_loop(a, x, 0, Len(a))

\* A list that takes its new element at the end, whatever its position.
insort_at_end(a, x) == Append(a, x)

insort(a, x) == list_insert(a, bisect_right(a, key(x)).idx, x)

(***************************************************************************)
(* ConsistentHash.  self is [virtual_nodes, hash_ring, nodes].             *)
(***************************************************************************)
_hash(k) == hashOf[k]

\* The body of add_node's loop, from index i on.
RECURSIVE add_node_loop(_, _, _)
add_node_loop(st, node, i) ==
    IF i < st.self.virtual_nodes
    THEN LET vnode == VirtualNode(node, i, _hash(VirtualKey(node, i)))
         IN  add_node_loop(
                 [self |-> [st.self EXCEPT !.hash_ring = insort(@, vnode)],
                  virtual_nodes |-> Append(st.virtual_nodes, vnode)],
                 node, i + 1)
    ELSE st

\* add_node without its last statement: the markers go on the ring and the
\* node is not entered in nodes.
add_node_unregistered(self, node) ==
    IF node \in DOMAIN self.nodes
    THEN [exc |-> "none", ret |-> "None", self |-> self]
    ELSE [exc |-> "none", ret |-> "None",
          self |-> add_node_loop([self |-> self, virtual_nodes |-> <<>>], node, 0).self]

add_node(self, node) ==
    IF node \in DOMAIN self.nodes
    THEN [exc |-> "none", ret |-> "None", self |-> self]
    ELSE LET st == add_node_loop([self |-> self, virtual_nodes |-> <<>>], node, 0)
         IN  [exc |-> "none", ret |-> "None",
              self |-> [st.self EXCEPT !.nodes =
                  [n \in DOMAIN st.self.nodes \cup {node} |->
                      IF n = node THEN st.virtual_nodes ELSE st.self.nodes[n]]]]

\* The body of remove_node's loop, from the i-th (counted from 1) marker on.
RECURSIVE remove_node_loop(_, _, _)
remove_node_loop(ring, vns, i) ==
    IF i <= Len(vns)
    THEN LET b == bisect_left(ring, vns[i])
         IN  IF b.exc # "none" THEN [exc |-> b.exc, hash_ring |-> ring]
             ELSE IF b.idx < Len(ring)
                     /\ ring[b.idx + 1].hash_value = vns[i].hash_value
             THEN remove_node_loop(list_pop(ring, b.idx), vns, i + 1)
             ELSE remove_node_loop(ring, vns, i + 1)
    ELSE [exc |-> "none", hash_ring |-> ring]

\* A removal with its test inverted: it keeps the markers of node and drops
\* those of every other node.
remove_node_inverted(self, node) ==
    [exc |-> "none", ret |-> "None",
     self |-> [self EXCEPT
         !.hash_ring = SelectSeq(@, LAMBDA v : v.physical_node = node),
         !.nodes = [n \in DOMAIN @ \ {node} |-> @[n]]]]

remove_node(self, node) ==
    IF node \notin DOMAIN self.nodes
    THEN [exc |-> "none", ret |-> "None", self |-> self]
    ELSE LET r == remove_node_loop(self.hash_ring, self.nodes[node], 1)
         IN  IF r.exc # "none"
             THEN [exc |-> r.exc, ret |-> "None",
                   self |-> [self EXCEPT !.hash_ring = r.hash_ring]]
             ELSE [exc |-> "none", ret |-> "None",
                   self |-> [self EXCEPT
                       !.hash_ring = r.hash_ring,
                       !.nodes = [n \in DOMAIN self.nodes \ {node} |-> self.nodes[n]]]]

get_node(self, k) ==
    IF self.hash_ring = <<>>
    THEN [exc |-> "none", ret |-> "None"]
    ELSE LET hash_value == _hash(k)
             b == bisect_right(self.hash_ring, VirtualNode("", 0, hash_value))
             idx == IF b.idx >= Len(self.hash_ring) THEN 0 ELSE b.idx
         IN  IF b.exc # "none" THEN [exc |-> b.exc, ret |-> "None"]
             ELSE [exc |-> "none", ret |-> self.hash_ring[idx + 1].physical_node]

\* ConsistentHash(nodes, virtual_nodes): add_node for each element of the list.
RECURSIVE init_loop(_, _, _)
init_loop(self, node_list, i) ==
    IF i <= Len(node_list)
    THEN init_loop(add_node(self, node_list[i]).self, node_list, i + 1)
    ELSE self

ConsistentHash(node_list, vn) ==
    init_loop([virtual_nodes |-> vn, hash_ring |-> <<>>,
               nodes |-> [n \in {} |-> <<>>]], node_list, 1)

(***************************************************************************)
(* ShardedDatabase.  db is [hasher, shards].                               *)
(***************************************************************************)
\* Python truth value of get_node's result: None and "" are false.
truthy(s) == s \notin {"None", ""}

\* {node: {} for node in shard_nodes}
RECURSIVE empty_shards(_, _)
empty_shards(node_list, i) ==
    IF i = 0 THEN <<>>
    ELSE dict_set(empty_shards(node_list, i - 1), node_list[i], <<>>)

ShardedDatabase(shard_nodes) ==
    [hasher |-> ConsistentHash(shard_nodes, DefaultVirtualNodes),
     shards |-> empty_shards(shard_nodes, Len(shard_nodes))]

set(db, k, value) ==
    LET g == get_node(db.hasher, k)
    IN  IF g.exc # "none" THEN [exc |-> g.exc, ret |-> "None", db |-> db]
        ELSE IF truthy(g.ret)
        THEN IF g.ret \notin dict_keys(db.shards)
             THEN [exc |-> "KeyError", ret |-> "None", db |-> db]
             ELSE [exc |-> "none", ret |-> "True",
                   db |-> [db EXCEPT !.shards =
                       dict_set(@, g.ret, dict_set(dict_get(@, g.ret), k, value))]]
        ELSE [exc |-> "none", ret |-> "False", db |-> db]

get(db, k) ==
    LET g == get_node(db.hasher, k)
    IN  IF g.exc # "none" THEN [exc |-> g.exc, ret |-> "None"]
        ELSE IF truthy(g.ret)
        THEN IF g.ret \notin dict_keys(db.shards)
             THEN [exc |-> "KeyError", ret |-> "None"]
             ELSE LET m == dict_get(db.shards, g.ret)
                  IN  [exc |-> "none",
                       ret |-> IF k \in dict_keys(m) THEN dict_get(m, k) ELSE "None"]
        ELSE [exc |-> "none", ret |-> "None"]

\* for key, value in items: self.set(key, value), from the i-th item on.
RECURSIVE set_all(_, _, _)
set_all(db, items, i) ==
    IF i <= Len(items)
    THEN LET r == set(db, items[i][1], items[i][2])
         IN  IF r.exc # "none" THEN [exc |-> r.exc, ret |-> "None", db |-> r.db]
             ELSE set_all(r.db, items, i + 1)
    ELSE [exc |-> "none", ret |-> "None", db |-> db]

\* all_data: the items of every shard map, in the order of shards.
RECURSIVE all_items(_, _)
all_items(sh, i) ==
    IF i = 0 THEN <<>> ELSE all_items(sh, i - 1) \o sh[i][2]

_rebalance(db) ==
    LET all_data == all_items(db.shards, Len(db.shards))
        cleared  == [i \in 1 .. Len(db.shards) |-> <<db.shards[i][1], <<>>>>]
    IN  set_all([db EXCEPT !.shards = cleared], all_data, 1)

\* add_shard without the creation of the node's map.
add_shard_nomap(db, node) ==
    _rebalance([hasher |-> add_node(db.hasher, node).self, shards |-> db.shards])

add_shard(db, node) ==
    LET a   == add_node(db.hasher, node)
        db1 == [hasher |-> a.self, shards |-> dict_set(db.shards, node, <<>>)]
    IN  _rebalance(db1)

\* A remove_shard that drops the node's map and then rebalances the whole
\* store, without a call of remove_node.
remove_shard_rebalancing(db, node) ==
    IF node \notin dict_keys(db.shards)
    THEN [exc |-> "none", ret |-> "None", db |-> db]
    ELSE _rebalance([db EXCEPT !.shards = dict_del(@, node)])

remove_shard(db, node) ==
    IF node \notin dict_keys(db.shards)
    THEN [exc |-> "none", ret |-> "None", db |-> db]
    ELSE LET data_to_migrate == dict_get(db.shards, node)
             r == remove_node(db.hasher, node)
         IN  IF r.exc # "none"
             THEN [exc |-> r.exc, ret |-> "None", db |-> [db EXCEPT !.hasher = r.self]]
             ELSE set_all([hasher |-> r.self, shards |-> dict_del(db.shards, node)],
                          data_to_migrate, 1)

\* Statistics that give every shard the number of shards.
get_shard_stats_total(db) ==
    [exc |-> "none",
     ret |-> [i \in 1 .. Len(db.shards) |-> <<db.shards[i][1], Len(db.shards)>>]]

get_shard_stats(db) ==
    [exc |-> "none",
     ret |-> [i \in 1 .. Len(db.shards) |-> <<db.shards[i][1], Len(db.shards[i][2])>>]]

(***************************************************************************)
(* The objects held in the variables.                                      *)
(***************************************************************************)
Hasher == [virtual_nodes |-> virtual_nodes, hash_ring |-> hash_ring, nodes |-> nodes]

Db == [hasher |-> Hasher, shards |-> shards]

\* The record of a completed call.  ret is the string returned (a node id, a
\* value, "None", "True", "False"); stats is the dict get_shard_stats returned;
\* thread is the caller; overlap says that another thread was inside
\* add_shard or remove_shard when the call completed.
Call(op, arg, r) ==
    [op |-> op, arg |-> arg, exc |-> r.exc, ret |-> r.ret, stats |-> <<>>,
     thread |-> "main", overlap |-> FALSE]

StoreDb(db) ==
    /\ virtual_nodes' = db.hasher.virtual_nodes
    /\ hash_ring' = db.hasher.hash_ring
    /\ nodes' = db.hasher.nodes
    /\ shards' = db.shards

(***************************************************************************)
(* Threads (SpecConc).  A thread is idle or inside one add_shard or        *)
(* remove_shard call:                                                      *)
(*   pc    the statement it executes next                                  *)
(*   node  the call's argument                                             *)
(*   i     the loop index of add_node / remove_node                        *)
(*   vns   add_node's and remove_node's local list virtual_nodes           *)
(*   data  _rebalance's all_data, remove_shard's data_to_migrate           *)
(*   alias data_to_migrate is still the dict object held in shards[node]   *)
(*   j     the index of the next item of data to set                       *)
(*   keys0 the keys that had been written when the call began              *)
(***************************************************************************)
Threads == {"t1", "t2"}

IdleThread ==
    [pc |-> "idle", op |-> "none", node |-> "", i |-> 0, vns |-> <<>>,
     data |-> <<>>, alias |-> FALSE, j |-> 0, keys0 |-> {}]

(***************************************************************************)
(* Spec: one caller of a ShardedDatabase, one call at a time.              *)
(***************************************************************************)
\* The lists a ShardedDatabase is built from.
InitialShardLists == {<<>>, <<"shard1", "shard2">>}

EmptyDict == [k \in {} |-> "None"]

\* ref[k] = value on a plain dict.  ref receives every set call that the store
\* does not answer with False (its answer when it has no shard at all).
ref_set(d, k, value) == [x \in DOMAIN d \cup {k} |-> IF x = k THEN value ELSE d[x]]

Init ==
    /\ OthersIdle
    /\ hashOf \in HashTables
    /\ ref = EmptyDict
    /\ threads = [t \in Threads |-> IdleThread]
    /\ \E shard_nodes \in InitialShardLists :
         LET db == ShardedDatabase(shard_nodes)
         IN  /\ virtual_nodes = db.hasher.virtual_nodes
             /\ hash_ring = db.hasher.hash_ring
             /\ nodes = db.hasher.nodes
             /\ shards = db.shards
             /\ last = Call("__init__", shard_nodes, [exc |-> "none", ret |-> "None"])

Set(k, value) ==
    LET r == set(Db, k, value)
    IN  /\ StoreDb(r.db)
        /\ last' = Call("set", <<k, value>>, r)
        /\ ref' = IF r.exc = "none" /\ r.ret = "False" THEN ref ELSE ref_set(ref, k, value)
        /\ UNCHANGED <<others, hashOf, threads>>

Get(k) ==
    /\ last' = Call("get", <<k>>, get(Db, k))
    /\ UNCHANGED <<others, hashOf, virtual_nodes, hash_ring, nodes, shards, ref, threads>>

\* A lookup that takes the first marker off the ring.
GetNode_consuming(k) ==
    /\ last' = Call("get_node", <<k>>, get_node(Hasher, k))
    /\ hash_ring' = IF hash_ring = <<>> THEN hash_ring ELSE list_pop(hash_ring, 0)
    /\ UNCHANGED <<others, hashOf, virtual_nodes, nodes, shards, ref, threads>>

GetNode(k) ==
    /\ last' = Call("get_node", <<k>>, get_node(Hasher, k))
    /\ UNCHANGED <<others, hashOf, virtual_nodes, hash_ring, nodes, shards, ref, threads>>

AddShard(node) ==
    LET r == add_shard(Db, node)
    IN  /\ StoreDb(r.db)
        /\ last' = Call("add_shard", <<node>>, r)
        /\ UNCHANGED <<others, hashOf, ref, threads>>

RemoveShard(node) ==
    LET r == remove_shard(Db, node)
    IN  /\ StoreDb(r.db)
        /\ last' = Call("remove_shard", <<node>>, r)
        /\ UNCHANGED <<others, hashOf, ref, threads>>

GetShardStats ==
    /\ last' = [Call("get_shard_stats", <<>>, [exc |-> "none", ret |-> "dict"])
                    EXCEPT !.stats = get_shard_stats(Db).ret]
    /\ UNCHANGED <<others, hashOf, virtual_nodes, hash_ring, nodes, shards, ref, threads>>

Next ==
    \/ \E k \in Keys, value \in Values : Set(k, value)
    \/ \E k \in Keys : Get(k)
    \/ \E k \in Keys : GetNode(k)
    \/ \E node \in NodeIds : AddShard(node)
    \/ \E node \in NodeIds : RemoveShard(node)
    \/ GetShardStats

Spec == Init /\ [][Next]_vars

(***************************************************************************)
(* SpecLoaded: the caller of Spec, who also fills shard maps through the   *)
(* object's public attribute shards.  get_node raises for every key once   *)
(* the ring has a marker, so set stores nothing, and an item assignment on *)
(* db.shards[node] is the one way a shard map comes to hold a key.         *)
(***************************************************************************)
LoadKeys == {"user_0"}

\* db.shards[node][k] = value
shards_setitem(db, node, k, value) ==
    IF node \notin dict_keys(db.shards)
    THEN [exc |-> "KeyError", ret |-> "None", db |-> db]
    ELSE [exc |-> "none", ret |-> "None",
          db |-> [db EXCEPT !.shards =
              dict_set(@, node, dict_set(dict_get(@, node), k, value))]]

LoadShard(node, k, value) ==
    LET r == shards_setitem(Db, node, k, value)
    IN  /\ StoreDb(r.db)
        /\ last' = Call("shards_setitem", <<node, k, value>>, r)
        /\ UNCHANGED <<others, hashOf, ref, threads>>

NextLoaded ==
    \/ \E node \in NodeIds, k \in LoadKeys, value \in Values : LoadShard(node, k, value)
    \/ \E k \in LoadKeys : Get(k)
    \/ \E node \in NodeIds : AddShard(node)
    \/ \E node \in NodeIds : RemoveShard(node)
    \/ GetShardStats

SpecLoaded == Init /\ [][NextLoaded]_vars

(***************************************************************************)
(* SpecRing: one caller of a ConsistentHash on its own.                    *)
(***************************************************************************)
StoreHasher(self) ==
    /\ virtual_nodes' = self.virtual_nodes
    /\ hash_ring' = self.hash_ring
    /\ nodes' = self.nodes

InitRing ==
    /\ OthersIdle
    /\ hashOf \in HashTables
    /\ ref = EmptyDict
    /\ threads = [t \in Threads |-> IdleThread]
    /\ shards = <<>>
    /\ \E vn \in 0 .. DefaultVirtualNodes :
         LET self == ConsistentHash(<<>>, vn)
         IN  /\ virtual_nodes = self.virtual_nodes
             /\ hash_ring = self.hash_ring
             /\ nodes = self.nodes
             /\ last = Call("__init__", <<>>, [exc |-> "none", ret |-> "None"])

AddNode(node) ==
    LET r == add_node(Hasher, node)
    IN  /\ StoreHasher(r.self)
        /\ last' = Call("add_node", <<node>>, r)
        /\ UNCHANGED <<others, hashOf, shards, ref, threads>>

RemoveNode(node) ==
    LET r == remove_node(Hasher, node)
    IN  /\ StoreHasher(r.self)
        /\ last' = Call("remove_node", <<node>>, r)
        /\ UNCHANGED <<others, hashOf, shards, ref, threads>>

NextRing ==
    \/ \E node \in NodeIds : AddNode(node)
    \/ \E node \in NodeIds : RemoveNode(node)
    \/ \E k \in Keys : GetNode(k)

SpecRing == InitRing /\ [][NextRing]_vars

(***************************************************************************)
(* SpecCount: the caller of SpecRing, who also asks for a node with a      *)
(* marker count of its own.  add_node takes (self, node) and nothing else, *)
(* so the interpreter rejects the call before the body runs.               *)
(***************************************************************************)
VirtualCounts == 1 .. DefaultVirtualNodes

\* h.add_node(node, virtual_count): one positional argument too many.
add_node_with_count(self, node, virtual_count) ==
    [exc |-> "TypeError", ret |-> "None", self |-> self]

AddNodeWithCount(node, virtual_count) ==
    LET r == add_node_with_count(Hasher, node, virtual_count)
    IN  /\ StoreHasher(r.self)
        /\ last' = Call("add_node", <<node, ToString(virtual_count)>>, r)
        /\ UNCHANGED <<others, hashOf, shards, ref, threads>>

NextCount ==
    \/ NextRing
    \/ \E node \in NodeIds, virtual_count \in VirtualCounts :
           AddNodeWithCount(node, virtual_count)

SpecCount == InitRing /\ [][NextCount]_vars

(***************************************************************************)
(* SpecConc: two threads share one ShardedDatabase.  The code holds no     *)
(* lock, so the interpreter may switch threads between any two statements: *)
(* add_shard and remove_shard advance one statement (one loop iteration,   *)
(* one nested set) at a time; set, get and get_node run in one step.       *)
(***************************************************************************)
\* One statement of add_shard(th.node), add_node and _rebalance inlined, on
\* the store db by a thread with locals th.  exc is "running", "none" (the
\* call returned) or the exception that left the call.
add_shard_step(db, th) ==
    CASE th.pc = "an_check" ->
            \* add_node: if node in self.nodes: return / virtual_nodes = []
            IF th.node \in DOMAIN db.hasher.nodes
            THEN [db |-> db, exc |-> "running", th |-> [th EXCEPT !.pc = "as_map"]]
            ELSE [db |-> db, exc |-> "running",
                  th |-> [th EXCEPT !.pc = "an_loop", !.i = 0, !.vns = <<>>]]
      [] th.pc = "an_loop" ->
            IF th.i < db.hasher.virtual_nodes
            THEN \* one iteration of the loop
                 LET vnode == VirtualNode(th.node, th.i, _hash(VirtualKey(th.node, th.i)))
                 IN  [db |-> [db EXCEPT !.hasher.hash_ring = insort(@, vnode)],
                      exc |-> "running",
                      th |-> [th EXCEPT !.vns = Append(@, vnode), !.i = @ + 1]]
            ELSE \* self.nodes[node] = virtual_nodes
                 [db |-> [db EXCEPT !.hasher.nodes =
                      [n \in DOMAIN @ \cup {th.node} |->
                          IF n = th.node THEN th.vns ELSE @[n]]],
                  exc |-> "running",
                  th |-> [th EXCEPT !.pc = "as_map"]]
      [] th.pc = "as_map" ->
            \* self.shards[node] = {}
            [db |-> [db EXCEPT !.shards = dict_set(@, th.node, <<>>)],
             exc |-> "running",
             th |-> [th EXCEPT !.pc = "rb_collect"]]
      [] th.pc = "rb_collect" ->
            \* _rebalance: all_data
            [db |-> db, exc |-> "running",
             th |-> [th EXCEPT !.pc = "rb_clear",
                               !.data = all_items(db.shards, Len(db.shards))]]
      [] th.pc = "rb_clear" ->
            \* _rebalance: shard.clear() for every shard
            [db |-> [db EXCEPT !.shards =
                 [i \in 1 .. Len(@) |-> <<@[i][1], <<>>>>]],
             exc |-> "running",
             th |-> [th EXCEPT !.pc = "rb_set", !.j = 1]]
      [] th.pc = "rb_set" ->
            \* _rebalance: self.set(key, value) for the next item, or return
            IF th.j <= Len(th.data)
            THEN LET r == set(db, th.data[th.j][1], th.data[th.j][2])
                 IN  [db |-> r.db,
                      exc |-> IF r.exc = "none" THEN "running" ELSE r.exc,
                      th |-> [th EXCEPT !.j = @ + 1]]
            ELSE [db |-> db, exc |-> "none", th |-> th]

\* One statement of remove_shard(th.node), remove_node inlined.
remove_shard_step(db, th) ==
    CASE th.pc = "rs_check" ->
            \* if node not in self.shards: return / data_to_migrate = self.shards[node]
            IF th.node \notin dict_keys(db.shards)
            THEN [db |-> db, exc |-> "none", th |-> th]
            ELSE [db |-> db, exc |-> "running",
                  th |-> [th EXCEPT !.pc = "rn_check", !.alias = TRUE]]
      [] th.pc = "rn_check" ->
            \* remove_node: if node not in self.nodes: return / virtual_nodes = ...
            IF th.node \notin DOMAIN db.hasher.nodes
            THEN [db |-> db, exc |-> "running", th |-> [th EXCEPT !.pc = "rs_del"]]
            ELSE [db |-> db, exc |-> "running",
                  th |-> [th EXCEPT !.pc = "rn_loop", !.i = 1,
                                    !.vns = db.hasher.nodes[th.node]]]
      [] th.pc = "rn_loop" ->
            IF th.i <= Len(th.vns)
            THEN \* one iteration of the loop
                 LET ring == db.hasher.hash_ring
                     b == bisect_left(ring, th.vns[th.i])
                 IN  IF b.exc # "none" THEN [db |-> db, exc |-> b.exc, th |-> th]
                     ELSE IF b.idx < Len(ring)
                             /\ ring[b.idx + 1].hash_value = th.vns[th.i].hash_value
                     THEN [db |-> [db EXCEPT !.hasher.hash_ring = list_pop(@, b.idx)],
                           exc |-> "running", th |-> [th EXCEPT !.i = @ + 1]]
                     ELSE [db |-> db, exc |-> "running", th |-> [th EXCEPT !.i = @ + 1]]
            ELSE \* del self.nodes[node]
                 IF th.node \notin DOMAIN db.hasher.nodes
                 THEN [db |-> db, exc |-> "KeyError", th |-> th]
                 ELSE [db |-> [db EXCEPT !.hasher.nodes =
                           [n \in DOMAIN @ \ {th.node} |-> @[n]]],
                       exc |-> "running", th |-> [th EXCEPT !.pc = "rs_del"]]
      [] th.pc = "rs_del" ->
            \* del self.shards[node]
            IF th.node \notin dict_keys(db.shards)
            THEN [db |-> db, exc |-> "KeyError", th |-> th]
            ELSE [db |-> [db EXCEPT !.shards = dict_del(@, th.node)],
                  exc |-> "running", th |-> [th EXCEPT !.pc = "rs_set", !.j = 1]]
      [] th.pc = "rs_set" ->
            \* self.set(key, value) for the next item of data_to_migrate, or return
            IF th.j <= Len(th.data)
            THEN LET r == set(db, th.data[th.j][1], th.data[th.j][2])
                 IN  [db |-> r.db,
                      exc |-> IF r.exc = "none" THEN "running" ELSE r.exc,
                      th |-> [th EXCEPT !.j = @ + 1]]
            ELSE [db |-> db, exc |-> "none", th |-> th]

\* Thread u is inside add_shard or remove_shard.
InChange(u) == threads[u].pc # "idle"

Overlapped(t) == \E u \in Threads \ {t} : InChange(u)

ConcCall(t, op, arg, r) ==
    [Call(op, arg, r) EXCEPT !.thread = t, !.overlap = Overlapped(t)]

\* The dict object held in shards[node] leaves shards (it is replaced or
\* deleted): every data_to_migrate that is this object keeps its contents.
detached(ths, node) ==
    IF node \in dict_keys(shards)
    THEN [u \in Threads |->
             IF ths[u].alias /\ ths[u].node = node
             THEN [ths[u] EXCEPT !.data = dict_get(shards, node), !.alias = FALSE]
             ELSE ths[u]]
    ELSE ths

\* The effect of one statement with outcome r on the variables.
Advance(t, ths, r) ==
    /\ StoreDb(r.db)
    /\ threads' = [ths EXCEPT ![t] = IF r.exc = "running" THEN r.th ELSE IdleThread]
    /\ last' = IF r.exc = "running" THEN last
               ELSE ConcCall(t, ths[t].op, <<ths[t].node>>, [exc |-> r.exc, ret |-> "None"])
    /\ UNCHANGED <<others, hashOf, ref>>

\* The lists the shared ShardedDatabase is built from, the ids the threads add
\* and remove, and the keys they read and write.
ConcShardLists == {<<>>, <<"shard1">>}

ConcNodeIds == {"shard1", "shard2"}

ConcKeys == {"user_0"}

InitConc ==
    /\ OthersIdle
    /\ hashOf \in {h \in HashTables : h["nodeX:0"] = 2}
    /\ ref = EmptyDict
    /\ threads = [t \in Threads |-> IdleThread]
    /\ \E shard_nodes \in ConcShardLists :
         LET db == ShardedDatabase(shard_nodes)
         IN  /\ virtual_nodes = db.hasher.virtual_nodes
             /\ hash_ring = db.hasher.hash_ring
             /\ nodes = db.hasher.nodes
             /\ shards = db.shards
             /\ last = Call("__init__", shard_nodes, [exc |-> "none", ret |-> "None"])

ConcSet(t, k, value) ==
    LET r == set(Db, k, value)
    IN  /\ threads[t].pc = "idle"
        /\ StoreDb(r.db)
        /\ ref' = IF r.exc = "none" /\ r.ret = "False" THEN ref ELSE ref_set(ref, k, value)
        /\ last' = ConcCall(t, "set", <<k, value>>, r)
        /\ UNCHANGED <<others, hashOf, threads>>

ConcGet(t, k) ==
    LET r == get(Db, k)
    IN  /\ threads[t].pc = "idle"
        /\ last' = ConcCall(t, "get", <<k>>, r)
        /\ UNCHANGED <<others, hashOf, virtual_nodes, hash_ring, nodes, shards, ref, threads>>

ConcGetNode(t, k) ==
    LET r == get_node(Hasher, k)
    IN  /\ threads[t].pc = "idle"
        /\ last' = ConcCall(t, "get_node", <<k>>, r)
        /\ UNCHANGED <<others, hashOf, virtual_nodes, hash_ring, nodes, shards, ref, threads>>

\* The call's first statement.
BeginAddShard(t, node) ==
    /\ threads[t].pc = "idle"
    /\ Advance(t, threads,
               add_shard_step(Db, [threads[t] EXCEPT !.pc = "an_check", !.op = "add_shard",
                                       !.node = node, !.keys0 = DOMAIN ref]))

AddShardStep(t) ==
    /\ threads[t].op = "add_shard"
    /\ threads[t].pc # "idle"
    /\ LET ths == IF threads[t].pc = "as_map"
                  THEN detached(threads, threads[t].node) ELSE threads
       IN  Advance(t, ths, add_shard_step(Db, ths[t]))

BeginRemoveShard(t, node) ==
    /\ threads[t].pc = "idle"
    /\ LET th == [threads[t] EXCEPT !.pc = "rs_check", !.op = "remove_shard",
                       !.node = node, !.keys0 = DOMAIN ref]
       IN  Advance(t, [threads EXCEPT ![t] = th], remove_shard_step(Db, th))

RemoveShardStep(t) ==
    /\ threads[t].op = "remove_shard"
    /\ threads[t].pc # "idle"
    /\ LET ths == IF threads[t].pc = "rs_del"
                  THEN detached(threads, threads[t].node) ELSE threads
       IN  Advance(t, ths, remove_shard_step(Db, ths[t]))

NextConc ==
    \E t \in Threads :
        \/ \E k \in ConcKeys, value \in Values : ConcSet(t, k, value)
        \/ \E k \in ConcKeys : ConcGet(t, k)
        \/ \E k \in ConcKeys : ConcGetNode(t, k)
        \/ \E node \in ConcNodeIds : BeginAddShard(t, node)
        \/ AddShardStep(t)
        \/ \E node \in ConcNodeIds : BeginRemoveShard(t, node)
        \/ RemoveShardStep(t)

SpecConc == InitConc /\ [][NextConc]_vars

(***************************************************************************)
(* Master/replica replication, src/examples/replication/                   *)
(* master_slave_replication.py.  A DataRecord is [key, value, timestamp,   *)
(* version]; the master is [data, replication_log, replicas, version] and  *)
(* the position of the thread inside set; the replica is [data, master,    *)
(* last_replicated, replication_queue] and the locals and position of its  *)
(* worker thread.  replication_queue holds only True items, so the model   *)
(* keeps their number.                                                     *)
(***************************************************************************)
\* time.time() returns 1 .. MaxTime and never goes back.
MaxTime == 2

\* The number of set calls on the master.
MaxWrites == 3

ReplKeys == {"user_1", "user_2"}

ReplValues == {"value_1", "value_2"}

DataRecord(k, value, timestamp, version) ==
    [key |-> k, value |-> value, timestamp |-> timestamp, version |-> version]

\* [entry for entry in self.entries if entry.timestamp > timestamp]
get_entries_after(entries, timestamp) ==
    SelectSeq(entries, LAMBDA entry : entry.timestamp > timestamp)

\* Database.get: record.value if record else None.
Database_get(data, k) ==
    IF k \in dict_keys(data) THEN dict_get(data, k).value ELSE "None"

\* Database._set: self.data[record.key] = record.
Database_set(data, record) == dict_set(data, record.key, record)

\* MasterDatabase(), after add_replica(ReplicaDatabase("Replica-1")).
MasterDatabase ==
    [data |-> <<>>, replication_log |-> <<>>, replicas |-> <<"Replica-1">>,
     version |-> 0, pc |-> "idle"]

\* ReplicaDatabase("Replica-1"), after set_master: the worker thread waits in
\* replication_queue.get().
ReplicaDatabase ==
    [data |-> <<>>, master |-> "Master", last_replicated |-> 0,
     replication_queue |-> 0, pc |-> "get", new_records |-> <<>>]

\* No call has been made yet.
NoCall == Call("none", <<>>, [exc |-> "none", ret |-> "None"])

InitRepl ==
    /\ ShardIdle
    /\ CacheIdle /\ StreamIdle /\ BalancerIdle
    /\ last = NoCall
    /\ master = MasterDatabase
    /\ replica = ReplicaDatabase
    /\ now = 1

\* The clock moves on.
Tick ==
    /\ now < MaxTime
    /\ now' = now + 1
    /\ UNCHANGED <<shardVars, last, master, replica, cacheVars, streamVars, balancerVars>>

\* MasterDatabase.set, lines 81-93: the new version, the record, the master's
\* own data and the replication log.  Nothing but the log is read by the
\* worker thread, so the three statements are one step.
SetWrite(k, value) ==
    /\ master.pc = "idle"
    /\ master.version < MaxWrites
    /\ LET record == DataRecord(k, value, now, master.version + 1)
       IN  master' = [master EXCEPT !.version = @ + 1,
                                    !.data = Database_set(@, record),
                                    !.replication_log = Append(@, record),
                                    !.pc = "notify"]
    /\ UNCHANGED <<shardVars, last, replica, now, cacheVars, streamVars, balancerVars>>

\* MasterDatabase.set, lines 96-99: replica.notify_change() for the replica,
\* and the return.
SetNotify ==
    /\ master.pc = "notify"
    /\ replica' = [replica EXCEPT !.replication_queue = @ + 1]
    /\ master' = [master EXCEPT !.pc = "idle"]
    /\ UNCHANGED <<shardVars, last, now, cacheVars, streamVars, balancerVars>>

\* _replication_worker, line 129: self.replication_queue.get().
WorkerGet ==
    /\ replica.pc = "get"
    /\ replica.replication_queue > 0
    /\ replica' = [replica EXCEPT !.replication_queue = @ - 1, !.pc = "fetch"]
    /\ UNCHANGED <<shardVars, last, master, now, cacheVars, streamVars, balancerVars>>

\* _replication_worker, lines 131-133: the master is set, so the worker reads
\* the log entries after last_replicated.
WorkerFetch ==
    /\ replica.pc = "fetch"
    /\ replica' = [replica EXCEPT
                      !.new_records = get_entries_after(master.replication_log,
                                                        replica.last_replicated),
                      !.pc = "apply"]
    /\ UNCHANGED <<shardVars, last, master, now, cacheVars, streamVars, balancerVars>>

\* _replication_worker, lines 136-138: one round of the for loop.
WorkerApply ==
    /\ replica.pc = "apply"
    /\ replica.new_records # <<>>
    /\ LET record == Head(replica.new_records)
       IN  replica' = [replica EXCEPT !.data = Database_set(@, record),
                                      !.last_replicated = record.timestamp,
                                      !.new_records = Tail(@)]
    /\ UNCHANGED <<shardVars, last, master, now, cacheVars, streamVars, balancerVars>>

\* _replication_worker, lines 140-143: the loop is over, task_done(), and back
\* to the wait.
WorkerTaskDone ==
    /\ replica.pc = "apply"
    /\ replica.new_records = <<>>
    /\ replica' = [replica EXCEPT !.pc = "get"]
    /\ UNCHANGED <<shardVars, last, master, now, cacheVars, streamVars, balancerVars>>

Worker == WorkerGet \/ WorkerFetch \/ WorkerApply \/ WorkerTaskDone

NextRepl ==
    \/ Tick
    \/ \E k \in ReplKeys, value \in ReplValues : SetWrite(k, value)
    \/ SetNotify
    \/ WorkerGet
    \/ WorkerFetch
    \/ WorkerApply
    \/ WorkerTaskDone

\* A set call that has begun returns, and the worker thread runs whenever it
\* can: both are threads of a running interpreter.
SpecRepl ==
    InitRepl /\ [][NextRepl]_vars /\ WF_vars(SetNotify) /\ WF_vars(Worker)

(***************************************************************************)
(* Caches, src/examples/caching/cache_strategies.py.  An LRUCache is       *)
(* [capacity, cache, stats], cache being the OrderedDict; a WriteBackCache *)
(* is [cache, dirty], cache being its LRUCache.  The methods return        *)
(* [exc, ret, self].  Cached values are written as strings.                *)
(***************************************************************************)
\* Capacities are 0 .. MaxCapacity.
MaxCapacity == 2

\* stats.hits + stats.misses and stats.evictions stay within these.
MaxGets == 3

MaxEvictions == 2

Capacities == 0 .. MaxCapacity

CacheKeys == {"A", "B", "C"}

CacheValues == {"1", "2"}

CacheStats == [hits |-> 0, misses |-> 0, evictions |-> 0]

LRUCache(capacity) == [capacity |-> capacity, cache |-> <<>>, stats |-> CacheStats]

\* An LRUCache.get that answers without moving the key to the end.
LRUCache_get_peek(self, k) ==
    IF k \in dict_keys(self.cache)
    THEN [exc |-> "none", ret |-> dict_get(self.cache, k),
          self |-> [self EXCEPT !.stats.hits = @ + 1]]
    ELSE [exc |-> "none", ret |-> "None",
          self |-> [self EXCEPT !.stats.misses = @ + 1]]

\* LRUCache.get: a held key is popped and stored again, which puts it last.
LRUCache_get(self, k) ==
    IF k \in dict_keys(self.cache)
    THEN LET value == dict_get(self.cache, k)
         IN  [exc |-> "none", ret |-> value,
              self |-> [self EXCEPT !.cache = dict_set(dict_del(@, k), k, value),
                                    !.stats.hits = @ + 1]]
    ELSE [exc |-> "none", ret |-> "None",
          self |-> [self EXCEPT !.stats.misses = @ + 1]]

\* LRUCache.put.  popitem(last=False) takes the first item and raises KeyError
\* on an empty OrderedDict.
LRUCache_put(self, k, value) ==
    IF k \in dict_keys(self.cache)
    THEN [exc |-> "none", ret |-> "None",
          self |-> [self EXCEPT !.cache = dict_set(dict_del(@, k), k, value)]]
    ELSE IF Len(self.cache) >= self.capacity
         THEN IF self.cache = <<>>
              THEN [exc |-> "KeyError", ret |-> "None", self |-> self]
              ELSE [exc |-> "none", ret |-> "None",
                    self |-> [self EXCEPT !.cache = dict_set(Tail(@), k, value),
                                          !.stats.evictions = @ + 1]]
         ELSE [exc |-> "none", ret |-> "None",
               self |-> [self EXCEPT !.cache = dict_set(@, k, value)]]

\* LRUCache.remove
LRUCache_remove(self, k) ==
    IF k \in dict_keys(self.cache)
    THEN [exc |-> "none", ret |-> "None", self |-> [self EXCEPT !.cache = dict_del(@, k)]]
    ELSE [exc |-> "none", ret |-> "None", self |-> self]

\* The counters have room for one more get, and for one more eviction.
RoomForGet(self) == self.stats.hits + self.stats.misses < MaxGets

RoomForPut(self) == self.stats.evictions < MaxEvictions

\* The history of the calls, kept beside the cache: the keys in the order of
\* their most recent successful get or put, the oldest first.
touch(r, k) == SelectSeq(r, LAMBDA x : x # k) \o <<k>>

(***************************************************************************)
(* SpecLRU: one caller of an LRUCache.                                     *)
(***************************************************************************)
InitLRU ==
    /\ ShardIdle
    /\ ReplIdle /\ StreamIdle /\ BalancerIdle
    /\ last = NoCall
    /\ \E capacity \in Capacities : lru_cache = LRUCache(capacity)
    /\ recency = <<>>
    /\ write_back = <<>>
    /\ storage = <<>>
    /\ unflushed = <<>>

CacheGet(k) ==
    /\ RoomForGet(lru_cache)
    /\ LET r == LRUCache_get(lru_cache, k)
       IN  /\ lru_cache' = r.self
           /\ recency' = IF r.ret # "None" THEN touch(recency, k) ELSE recency
           /\ last' = Call("get", <<k>>, r)
    /\ UNCHANGED <<shardVars, replVars, write_back, storage, unflushed, streamVars, balancerVars>>

CachePut(k, value) ==
    /\ RoomForPut(lru_cache)
    /\ LET r == LRUCache_put(lru_cache, k, value)
       IN  /\ lru_cache' = r.self
           /\ recency' = IF r.exc = "none" THEN touch(recency, k) ELSE recency
           /\ last' = Call("put", <<k, value>>, r)
    /\ UNCHANGED <<shardVars, replVars, write_back, storage, unflushed, streamVars, balancerVars>>

CacheRemove(k) ==
    /\ LET r == LRUCache_remove(lru_cache, k)
       IN  /\ lru_cache' = r.self
           /\ last' = Call("remove", <<k>>, r)
    /\ UNCHANGED <<shardVars, replVars, recency, write_back, storage, unflushed, streamVars, balancerVars>>

NextLRU ==
    \/ \E k \in CacheKeys : CacheGet(k)
    \/ \E k \in CacheKeys, value \in CacheValues : CachePut(k, value)
    \/ \E k \in CacheKeys : CacheRemove(k)

SpecLRU == InitLRU /\ [][NextLRU]_vars

(***************************************************************************)
(* SpecWriteBack: one caller of a WriteBackCache whose storage callback is *)
(* demonstrate_caching's: storage[key] = value.                            *)
(***************************************************************************)
WbKeys == {"X", "Y"}

WbValues == {"10", "20"}

WriteBackCache(capacity) == [cache |-> LRUCache(capacity), dirty |-> <<>>]

\* storage_callback(key, value) on the dict st.
storage_callback(st, k, value) == dict_set(st, k, value)

WriteBackCache_get(self, k) ==
    LET r == LRUCache_get(self.cache, k)
    IN  [exc |-> r.exc, ret |-> r.ret, self |-> [self EXCEPT !.cache = r.self]]

\* WriteBackCache.put: an exception of cache.put leaves before dirty is set.
WriteBackCache_put(self, k, value) ==
    LET r == LRUCache_put(self.cache, k, value)
    IN  IF r.exc # "none"
        THEN [exc |-> r.exc, ret |-> "None", self |-> self]
        ELSE [exc |-> "none", ret |-> "None",
              self |-> [self EXCEPT !.cache = r.self, !.dirty = dict_set(@, k, TRUE)]]

\* dirty.get(key, False)
dirty_get(dirty, k) == IF k \in dict_keys(dirty) THEN dict_get(dirty, k) ELSE FALSE

\* WriteBackCache.flush: the loop over the first i items of cache.cache, on
\* the dirty flags of self and the storage st.
RECURSIVE flush_loop(_, _, _)
flush_loop(self, st, i) ==
    IF i = 0 THEN [self |-> self, storage |-> st]
    ELSE LET before == flush_loop(self, st, i - 1)
             k      == self.cache.cache[i][1]
             value  == self.cache.cache[i][2]
         IN  IF dirty_get(before.self.dirty, k)
             THEN [self    |-> [before.self EXCEPT !.dirty = dict_set(@, k, FALSE)],
                   storage |-> storage_callback(before.storage, k, value)]
             ELSE before

WriteBackCache_flush(self, st) ==
    LET r == flush_loop(self, st, Len(self.cache.cache))
    IN  [exc |-> "none", ret |-> "None", self |-> r.self, storage |-> r.storage]

InitWriteBack ==
    /\ ShardIdle
    /\ ReplIdle /\ StreamIdle /\ BalancerIdle
    /\ last = NoCall
    /\ lru_cache = <<>>
    /\ recency = <<>>
    /\ \E capacity \in Capacities : write_back = WriteBackCache(capacity)
    /\ storage = <<>>
    /\ unflushed = <<>>

WbGet(k) ==
    /\ RoomForGet(write_back.cache)
    /\ LET r == WriteBackCache_get(write_back, k)
       IN  /\ write_back' = r.self
           /\ last' = Call("get", <<k>>, r)
    /\ UNCHANGED <<shardVars, replVars, lru_cache, recency, storage, unflushed, streamVars, balancerVars>>

\* unflushed keeps the latest value of every key whose put has returned since
\* the last flush.
WbPut(k, value) ==
    /\ RoomForPut(write_back.cache)
    /\ LET r == WriteBackCache_put(write_back, k, value)
       IN  /\ write_back' = r.self
           /\ unflushed' = IF r.exc = "none" THEN dict_set(unflushed, k, value) ELSE unflushed
           /\ last' = Call("put", <<k, value>>, r)
    /\ UNCHANGED <<shardVars, replVars, lru_cache, recency, storage, streamVars, balancerVars>>

WbFlush ==
    /\ LET r == WriteBackCache_flush(write_back, storage)
       IN  /\ write_back' = r.self
           /\ storage' = r.storage
           /\ last' = Call("flush", <<>>, r)
    /\ unflushed' = <<>>
    /\ UNCHANGED <<shardVars, replVars, lru_cache, recency, streamVars, balancerVars>>

NextWriteBack ==
    \/ \E k \in WbKeys : WbGet(k)
    \/ \E k \in WbKeys, value \in WbValues : WbPut(k, value)
    \/ WbFlush

SpecWriteBack == InitWriteBack /\ [][NextWriteBack]_vars

(***************************************************************************)
(* Stream processing, src/examples/stream_processing/stream_processor.py:  *)
(* a StreamProcessor with one source, one TumblingWindow and one           *)
(* processor.  Timestamps are the integers 1 .. MaxStamp and a window size *)
(* is an integer; an Event is [timestamp, value], its value being its      *)
(* number in the stream.  The window is [size, events, window_start].      *)
(***************************************************************************)
MaxStamp == 5

MaxEvents == 4

MaxSize == 2

Event(timestamp, value) == [timestamp |-> timestamp, value |-> value]

\* TumblingWindow(size); window_start None is written 0, which no timestamp is.
TumblingWindow(size) == [size |-> size, events |-> <<>>, window_start |-> 0]

\* TumblingWindow.add_event
add_event(self, event) ==
    LET started == IF self.window_start = 0
                   THEN [self EXCEPT !.window_start = event.timestamp]
                   ELSE self
    IN  IF event.timestamp - started.window_start < started.size
        THEN [ret |-> FALSE, self |-> [started EXCEPT !.events = Append(@, event)]]
        ELSE [ret |-> TRUE, self |-> started]

\* Window.clear
clear(self) == [self EXCEPT !.events = <<>>]

\* StreamProcessor.process_windows: a window that holds events is handed to
\* the processor (get_events is a copy of the list) and cleared.
process_windows(self, seen) ==
    IF self.events # <<>>
    THEN [self |-> clear(self), handed |-> Append(seen, self.events)]
    ELSE [self |-> self, handed |-> seen]

InitStream ==
    /\ ShardIdle
    /\ ReplIdle /\ CacheIdle /\ BalancerIdle
    /\ last = NoCall
    /\ \E size \in 1 .. MaxSize : window = TumblingWindow(size)
    /\ handed = <<>>
    /\ arrived = <<>>

\* StreamProcessor.run, lines 153-157, for one event of the source.  The
\* source delivers its events in the order of their timestamps.
RunEvent(timestamp) ==
    /\ Len(arrived) < MaxEvents
    /\ arrived # <<>> => timestamp >= arrived[Len(arrived)].timestamp
    /\ LET event == Event(timestamp, Len(arrived) + 1)
           r     == add_event(window, event)
           p     == process_windows(r.self, handed)
       IN  /\ arrived' = Append(arrived, event)
           /\ window' = IF r.ret THEN p.self ELSE r.self
           /\ handed' = IF r.ret THEN p.handed ELSE handed
    /\ UNCHANGED <<shardVars, last, replVars, cacheVars, balancerVars>>

NextStream == \E timestamp \in 1 .. MaxStamp : RunEvent(timestamp)

SpecStream == InitStream /\ [][NextStream]_vars

(***************************************************************************)
(* Load balancing, src/examples/load_balancing/load_balancer.py: a list of *)
(* Server objects, each [id, weight, health_status], and a                 *)
(* WeightedRoundRobin, [current_weights].  select_server returns           *)
(* [exc, ret, self], ret being the id of the server selected or "None".    *)
(***************************************************************************)
\* Server weights are 1 .. MaxWeight.
MaxWeight == 2

ServerIds == <<"s1", "s2", "s3">>

\* HealthStatus
HealthStatus == {"Healthy", "Unhealthy", "Unknown"}

Server(id, weight) == [id |-> id, weight |-> weight, health_status |-> "Unknown"]

WeightedRoundRobin == [current_weights |-> <<>>]

\* [s for s in servers if s.health_status == HealthStatus.HEALTHY]
healthy_servers(server_list) ==
    SelectSeq(server_list, LAMBDA s : s.health_status = "Healthy")

\* Lines 104-106, for the first i healthy servers.
RECURSIVE init_weights(_, _, _)
init_weights(current_weights, healthy, i) ==
    IF i = 0 THEN current_weights
    ELSE LET cw == init_weights(current_weights, healthy, i - 1)
         IN  IF healthy[i].id \notin dict_keys(cw)
             THEN dict_set(cw, healthy[i].id, healthy[i].weight)
             ELSE cw

\* Lines 109-117, for the first i healthy servers.
RECURSIVE find_max(_, _, _)
find_max(current_weights, healthy, i) ==
    IF i = 0 THEN [max_weight |-> -1, selected |-> "None"]
    ELSE LET best == find_max(current_weights, healthy, i - 1)
         IN  IF /\ healthy[i].id \in dict_keys(current_weights)
                /\ dict_get(current_weights, healthy[i].id) > best.max_weight
             THEN [max_weight |-> dict_get(current_weights, healthy[i].id),
                   selected   |-> healthy[i].id]
             ELSE best

\* Lines 121-123, for the first i healthy servers.
RECURSIVE add_weights(_, _, _)
add_weights(current_weights, healthy, i) ==
    IF i = 0 THEN current_weights
    ELSE LET cw == add_weights(current_weights, healthy, i - 1)
         IN  IF healthy[i].id \in dict_keys(cw)
             THEN dict_set(cw, healthy[i].id, dict_get(cw, healthy[i].id) + healthy[i].weight)
             ELSE cw

\* sum(s.weight for s in healthy_servers)
RECURSIVE sum_weights(_, _)
sum_weights(healthy, i) ==
    IF i = 0 THEN 0 ELSE sum_weights(healthy, i - 1) + healthy[i].weight


\* WeightedRoundRobin.select_server
select_server(self, server_list) ==
    IF server_list = <<>>
    THEN [exc |-> "none", ret |-> "None", self |-> self]
    ELSE LET healthy == healthy_servers(server_list)
         IN  IF healthy = <<>>
             THEN [exc |-> "none", ret |-> "None", self |-> self]
             ELSE LET cw    == init_weights(self.current_weights, healthy, Len(healthy))
                      best  == find_max(cw, healthy, Len(healthy))
                      added == add_weights(cw, healthy, Len(healthy))
                  IN  IF best.selected # "None"
                      THEN [exc |-> "none", ret |-> best.selected,
                            self |-> [self EXCEPT !.current_weights =
                                         dict_set(added, best.selected,
                                                  dict_get(added, best.selected)
                                                    - sum_weights(healthy, Len(healthy)))]]
                      ELSE [exc |-> "none", ret |-> "None",
                            self |-> [self EXCEPT !.current_weights = cw]]

InitBalancer ==
    /\ ShardIdle
    /\ ReplIdle /\ CacheIdle /\ StreamIdle
    /\ last = NoCall
    /\ \E weights \in [1 .. Len(ServerIds) -> 1 .. MaxWeight] :
           servers = [i \in 1 .. Len(ServerIds) |-> Server(ServerIds[i], weights[i])]
    /\ algorithm = WeightedRoundRobin

\* A health check sets server i's health_status.
SetHealth(i, status) ==
    /\ servers[i].health_status # status
    /\ servers' = [servers EXCEPT ![i].health_status = status]
    /\ UNCHANGED <<shardVars, last, replVars, cacheVars, streamVars, algorithm>>

SelectServer ==
    /\ LET r == select_server(algorithm, servers)
       IN  /\ algorithm' = r.self
           /\ last' = Call("select_server", <<>>, r)
    /\ UNCHANGED <<shardVars, replVars, cacheVars, streamVars, servers>>

NextBalancer ==
    \/ \E i \in 1 .. Len(ServerIds), status \in {"Healthy", "Unhealthy"} : SetHealth(i, status)
    \/ SelectServer

SpecBalancer == InitBalancer /\ [][NextBalancer]_vars

(***************************************************************************)
(* Properties.                                                             *)
(***************************************************************************)
\* The index (from 1) of the first marker of the ring at or after position h,
\* 0 when every marker is below h.
first_at_or_after(ring, h) ==
    LET at == {i \in 1 .. Len(ring) : ring[i].hash_value >= h}
    IN  IF at = {} THEN 0 ELSE CHOOSE i \in at : \A j \in at : i <= j

\* The markers of the ring that belong to node.
markers_of(ring, node) ==
    {ring[i] : i \in {j \in 1 .. Len(ring) : ring[j].physical_node = node}}

\* C1: the store reads like one plain dict: every key that was written (by a
\* set call that did not answer False) reads back, with get, the value of the
\* last set of that key.
C1_ReadsLikeOneDict ==
    \A k \in DOMAIN ref : get(Db, k).exc = "none" /\ get(Db, k).ret = ref[k]

\* C2: after a completed set, add_shard or remove_shard, every key stored in
\* a shard map is stored in the map of the node get_node returns for it, and
\* in no other map.
C2_Residency ==
    (last.op \in {"set", "add_shard", "remove_shard"} /\ last.exc = "none") =>
        \A i \in 1 .. Len(shards) : \A k \in dict_keys(shards[i][2]) :
            /\ get_node(Hasher, k).exc = "none"
            /\ get_node(Hasher, k).ret = shards[i][1]
            /\ \A j \in 1 .. Len(shards) : j # i => k \notin dict_keys(shards[j][2])

\* The case C2 is about: some shard map holds a key.
C2_KeyStored == \E i \in 1 .. Len(shards) : shards[i][2] # <<>>

\* No shard map ever holds a key.
C2_NothingStored == ~C2_KeyStored

\* C3: on a non-empty ring, a key whose hash h does not exceed the largest
\* marker position is assigned to the owner of the first marker at or after
\* h; a key whose hash is a marker's position goes to that marker's owner.
C3_SuccessorWithTies ==
    \A k \in Keys :
        LET i == first_at_or_after(hash_ring, _hash(k))
        IN  (hash_ring # <<>> /\ i > 0) =>
                /\ get_node(Hasher, k).exc = "none"
                /\ get_node(Hasher, k).ret = hash_ring[i].physical_node

\* C4: remove_node(n) of a registered node n leaves no marker of n on the
\* ring, keeps every marker of every other node, and drops n from nodes.
C4_RemoveNodeExact ==
    [][\A n \in NodeIds :
          (n \in DOMAIN nodes /\ RemoveNode(n)) =>
              /\ markers_of(hash_ring', n) = {}
              /\ \A m \in NodeIds \ {n} :
                     markers_of(hash_ring, m) \subseteq markers_of(hash_ring', m)
              /\ n \notin DOMAIN nodes']_vars

\* C5: no two entries of the ring have the same position.  The formula states
\* it for the markers of two different nodes, the case in which a lookup at
\* that position has two candidate owners.
C5_NoDuplicatePositions ==
    \A i, j \in 1 .. Len(hash_ring) :
        hash_ring[i].physical_node # hash_ring[j].physical_node
            => hash_ring[i].hash_value # hash_ring[j].hash_value

C7_GetDuringChange ==
    [][\A t \in Threads, k \in ConcKeys :
          (/\ ConcGet(t, k)
           /\ \E u \in Threads \ {t} : InChange(u) /\ k \in threads[u].keys0)
              => (last'.exc = "none" /\ last'.ret = ref[k])]_vars

\* The case C8 is about: a set call returned True.
C8_SetReturnedTrue == last.op = "set" /\ last.exc = "none" /\ last.ret = "True"

\* C8 has no case: no set call ever returns True, with or without another
\* thread inside add_shard or remove_shard.
C8_SetNeverTrue == ~C8_SetReturnedTrue

\* The ring holds some, but not all, of the markers that a thread inside
\* add_node is inserting or that a thread inside remove_node is removing.
RingPartial ==
    \E u \in Threads :
        \/ threads[u].pc = "an_loop" /\ 0 < threads[u].i /\ threads[u].i < virtual_nodes
        \/ threads[u].pc = "rn_loop" /\ 1 < threads[u].i /\ threads[u].i <= Len(threads[u].vns)

\* C9: a get_node call never runs on a ring that holds only some of the
\* markers of a node that another thread is adding or removing.
C9_RoutingTableAtomic ==
    [][\A t \in Threads, k \in ConcKeys : ConcGetNode(t, k) => ~RingPartial]_vars

\* C10: at most one thread at a time is inside add_shard or remove_shard
\* (and so inside add_node, remove_node or _rebalance).
C10_MutualExclusion == Cardinality({t \in Threads : InChange(t)}) <= 1

\* C11: a node id is a key of nodes exactly when its virtual_nodes markers
\* are on the ring: every ring entry is owned by a registered node, and every
\* registered node has each of its markers (n, 0 .. virtual_nodes - 1) on the
\* ring.
C11_NodeMapRingAgreement ==
    /\ \A i \in 1 .. Len(hash_ring) : hash_ring[i].physical_node \in DOMAIN nodes
    /\ \A n \in DOMAIN nodes : \A i \in 0 .. virtual_nodes - 1 :
           VirtualNode(n, i, _hash(VirtualKey(n, i))) \in markers_of(hash_ring, n)
    /\ \A n \in DOMAIN nodes : Cardinality(markers_of(hash_ring, n)) = virtual_nodes

\* Two nodes are registered, each with markers, and the last call was an
\* add_node or a remove_node.
C11_Witness ==
    /\ last.op \in {"add_node", "remove_node"}
    /\ Cardinality(DOMAIN nodes) >= 2
    /\ virtual_nodes >= 2
    /\ Len(hash_ring) = virtual_nodes * Cardinality(DOMAIN nodes)

\* C12: hash_ring is in ascending order of hash_value.
C12_RingSorted ==
    \A i \in 1 .. Len(hash_ring) - 1 :
        hash_ring[i].hash_value <= hash_ring[i + 1].hash_value

\* The last add_node put a marker of its node below a marker of a node that
\* was on the ring before: an insertion that was not at the end of the list.
C12_Witness ==
    /\ last.op = "add_node"
    /\ \E i, j \in 1 .. Len(hash_ring) :
          /\ i < j
          /\ hash_ring[i].physical_node = last.arg[1]
          /\ hash_ring[j].physical_node # last.arg[1]
          /\ hash_ring[i].hash_value < hash_ring[j].hash_value

\* C13: on a non-empty ring, a key whose hash is above every marker position
\* is assigned to the owner of the marker at index 0.
C13_WrapAround ==
    \A k \in Keys :
        (hash_ring # <<>> /\ first_at_or_after(hash_ring, _hash(k)) = 0) =>
            /\ get_node(Hasher, k).exc = "none"
            /\ get_node(Hasher, k).ret = hash_ring[1].physical_node

\* C14: with at least one node registered (and at least one marker per
\* node), get_node returns, for every key, a node id that is a key of nodes.
C14_Coverage ==
    (nodes # EmptyDict /\ virtual_nodes >= 1) =>
        \A k \in Keys :
            /\ get_node(Hasher, k).exc = "none"
            /\ get_node(Hasher, k).ret \in DOMAIN nodes

\* C15: on a store with at least one shard, a get of the key just set
\* returns the value just set.
C15_RoundTrip ==
    (last.op = "set" /\ shards # <<>>) =>
        /\ last.exc = "none"
        /\ get(Db, last.arg[1]).exc = "none"
        /\ get(Db, last.arg[1]).ret = last.arg[2]

C17_EmptyRingError ==
    (last.op = "get_node" /\ nodes = EmptyDict) => last.exc = "NoNodesAvailableError"

\* C18: set on a store with no shard fails with the error of the empty-ring
\* lookup and stores nothing.
C18_SetWithoutShards ==
    (last.op = "set" /\ shards = <<>>) => last.exc = "NoNodesAvailableError"

\* The case C19 is about does not occur: no call ever takes a shard map out
\* of shards.
C19_NoShardEverRemoved ==
    [][dict_keys(shards) \subseteq dict_keys(shards')]_vars

\* C19: a remove_shard of the only shard, which holds pairs, ends with an
\* exception or leaves the pairs in the store.
C19_NoSilentLoss ==
    [][\A n \in NodeIds :
          (RemoveShard(n) /\ dict_keys(shards) = {n} /\ dict_get(shards, n) # <<>>) =>
              (last'.exc # "none" \/ shards' = shards)]_vars

\* C20: add_node(n) and add_shard(n) with n already registered fail with
\* DuplicateNodeError.  Stated for add_node.
C20_DuplicateNodeError ==
    [][\A n \in NodeIds :
          (n \in DOMAIN nodes /\ AddNode(n)) => last'.exc = "DuplicateNodeError"]_vars

\* C20 for add_shard.
C20_DuplicateShardError ==
    [][\A n \in NodeIds :
          (n \in DOMAIN nodes /\ AddShard(n)) => last'.exc = "DuplicateNodeError"]_vars

\* C21: remove_node(n) and remove_shard(n) with n not registered fail with
\* UnknownNodeError.  Stated for remove_node.
C21_UnknownNodeError ==
    [][\A n \in NodeIds :
          (n \notin DOMAIN nodes /\ RemoveNode(n)) => last'.exc = "UnknownNodeError"]_vars

\* C21 for remove_shard.
C21_UnknownShardError ==
    [][\A n \in NodeIds :
          (n \notin dict_keys(shards) /\ RemoveShard(n)) =>
              last'.exc = "UnknownNodeError"]_vars

\* C22: remove_node(n) with n not registered leaves hash_ring, nodes and the
\* shard maps as they were.
C22_UnknownRemoveChangesNothing ==
    [][\A n \in NodeIds :
          (n \notin DOMAIN nodes /\ RemoveNode(n)) =>
              UNCHANGED <<virtual_nodes, hash_ring, nodes, shards>>]_vars

\* C22 for remove_shard.
C22_UnknownShardRemoveChangesNothing ==
    [][\A n \in NodeIds :
          (n \notin dict_keys(shards) /\ RemoveShard(n)) =>
              UNCHANGED <<virtual_nodes, hash_ring, nodes, shards>>]_vars

\* A remove_node of an unregistered id has run on a ring that holds markers.
C22_Witness ==
    /\ last.op = "remove_node"
    /\ last.exc = "none"
    /\ last.arg[1] \notin DOMAIN nodes
    /\ hash_ring # <<>>

\* C23: add_node(n) of an unregistered n puts on the ring the virtual_nodes
\* markers (n, i, hash(n:i)), i = 0 .. virtual_nodes - 1, and nothing else,
\* records them in index order under nodes[n], and leaves the markers of the
\* other nodes, their order and their nodes entries as they were.
C23_AddNodeExact ==
    [][\A n \in NodeIds :
          (n \notin DOMAIN nodes /\ AddNode(n)) =>
              LET marker(i) == [cls |-> "VirtualNode", physical_node |-> n,
                                index |-> i, hash_value |-> _hash(VirtualKey(n, i))]
              IN  /\ last'.exc = "none"
                  /\ Len(hash_ring') = Len(hash_ring) + virtual_nodes
                  /\ markers_of(hash_ring', n) = {marker(i) : i \in 0 .. virtual_nodes - 1}
                  /\ SelectSeq(hash_ring', LAMBDA v : v.physical_node # n) = hash_ring
                  /\ DOMAIN nodes' = DOMAIN nodes \cup {n}
                  /\ nodes'[n] = [i \in 1 .. virtual_nodes |-> marker(i - 1)]
                  /\ \A m \in DOMAIN nodes : nodes'[m] = nodes[m]]_vars

\* The last add_node added a node with three markers to a ring that held
\* the markers of another node.
C23_Witness ==
    /\ last.op = "add_node"
    /\ virtual_nodes = DefaultVirtualNodes
    /\ last.arg[1] \in DOMAIN nodes
    /\ Cardinality(markers_of(hash_ring, last.arg[1])) = DefaultVirtualNodes
    /\ Len(hash_ring) > DefaultVirtualNodes

\* C24: the node ids that have a shard map are the node ids registered in
\* the hasher.
C24_ShardMapLifecycle == dict_keys(shards) = DOMAIN nodes

\* A completed add_shard has added a third shard to a store built with two.
C24_Witness ==
    /\ last.op = "add_shard"
    /\ last.exc = "none"
    /\ Len(shards) = 3

\* The sum of the counts of a get_shard_stats result, from its i-th entry
\* down.
RECURSIVE stats_sum(_, _)
stats_sum(stats, i) == IF i = 0 THEN 0 ELSE stats[i][2] + stats_sum(stats, i - 1)

\* C25: the counts get_shard_stats returns add up to the number of distinct
\* keys written.
C25_KeyCountConservation ==
    (last.op = "get_shard_stats" /\ shards # <<>>) =>
        stats_sum(last.stats, Len(last.stats)) = Cardinality(DOMAIN ref)

\* C26: after remove_shard(n) on a store with another shard, n has no map
\* (and so no entry in get_shard_stats) and the call has ended normally.
C26_RemovedShardGone ==
    [][\A n \in NodeIds :
          (n \in dict_keys(shards) /\ Len(shards) >= 2 /\ RemoveShard(n)) =>
              /\ last'.exc = "none"
              /\ n \notin dict_keys(shards')]_vars

\* C27: get_shard_stats returns, for each shard in the order of shards, the
\* number of keys of its map; get_shard_stats and get change neither the
\* ring, nor nodes, nor a shard map.
C27_ReadOnly ==
    [][/\ GetShardStats =>
            /\ Len(last'.stats) = Len(shards)
            /\ \A i \in 1 .. Len(shards) :
                   last'.stats[i] = <<shards[i][1], Cardinality(dict_keys(shards[i][2]))>>
            /\ UNCHANGED <<virtual_nodes, hash_ring, nodes, shards>>
       /\ \A k \in Keys : Get(k) => UNCHANGED <<virtual_nodes, hash_ring, nodes, shards>>]_vars

\* get_shard_stats has answered on a store with two shards, one holding a
\* key and one holding none.
C27_Witness ==
    /\ last.op = "get_shard_stats"
    /\ \E i, j \in 1 .. Len(last.stats) : last.stats[i][2] = 0 /\ last.stats[j][2] > 0

\* The pairs held in the shard maps.
stored_pairs(sh) == UNION {{sh[i][2][j] : j \in 1 .. Len(sh[i][2])} : i \in 1 .. Len(sh)}

C29_PerNodeVirtualCount ==
    [][\A n \in NodeIds, c \in VirtualCounts :
          (n \notin DOMAIN nodes /\ AddNodeWithCount(n, c)) =>
              /\ last'.exc = "none"
              /\ n \in DOMAIN nodes'
              /\ Cardinality(markers_of(hash_ring', n)) = c]_vars

\* Every registered node has the one marker count of the table.
C29_OneCountForAll ==
    \A n \in DOMAIN nodes : Cardinality(markers_of(hash_ring, n)) = virtual_nodes

\* Some key is assigned to a node: get_node returns a node id for it.
KeyAssigned ==
    \E k \in Keys : get_node(Hasher, k).exc = "none" /\ get_node(Hasher, k).ret # "None"

\* No key is ever assigned to a node.
NoKeyAssigned == ~KeyAssigned

\* C31: a key that get_node assigns to a node m other than n is still
\* assigned to m after remove_node(n).
C31_RemovalMovesOnlyOwnKeys ==
    [][\A n \in NodeIds :
          RemoveNode(n) =>
              \A k \in Keys :
                  LET g == get_node(Hasher, k)
                  IN  (g.exc = "none" /\ g.ret \notin {"None", n}) =>
                          (get_node(Hasher, k).exc = "none" /\ get_node(Hasher, k).ret = g.ret)']_vars

\* C32: after add_node(n) of an unregistered n, get_node returns for every
\* key the node it returned before the call, or n.
C32_AdditionMovesOnlyToNew ==
    [][\A n \in NodeIds :
          (n \notin DOMAIN nodes /\ virtual_nodes >= 1 /\ AddNode(n)) =>
              \A k \in Keys :
                  LET g == get_node(Hasher, k)
                  IN  /\ get_node(Hasher, k).exc' = "none"
                      /\ get_node(Hasher, k).ret' \in {g.ret, n}]_vars

\* C33: on a store with at least one shard, add_shard(n) of an unregistered
\* n followed by remove_shard(n) ends normally with the ring, nodes and the
\* shard maps as they were before the add_shard.
C33_AddRemoveRoundTrip ==
    \A n \in NodeIds :
        (shards # <<>> /\ n \notin DOMAIN nodes) =>
            LET added   == add_shard(Db, n)
                removed == remove_shard(added.db, n)
            IN  /\ added.exc = "none"
                /\ removed.exc = "none"
                /\ removed.db = Db

Written(v) == Len(master.replication_log) >= v

\* The replica holds the record of version v or a later record of its key.
Replicated(v) ==
    /\ Written(v)
    /\ LET record == master.replication_log[v]
       IN  /\ record.key \in dict_keys(replica.data)
           /\ dict_get(replica.data, record.key).version >= record.version

\* C35: every record that MasterDatabase.set wrote after the replica was
\* attached is in the end applied at the replica (the replica holds it or a
\* later record of the same key), whatever timestamps the records carry.
C35_EveryRecordApplied == \A v \in 1 .. MaxWrites : Written(v) ~> Replicated(v)

\* C36: when flush returns, the storage holds, for every key put since the
\* previous flush, the latest value put for it.
C36_FlushLosesNothing ==
    [][WbFlush =>
          \A i \in 1 .. Len(unflushed) :
              /\ unflushed[i][1] \in dict_keys(storage')
              /\ dict_get(storage', unflushed[i][1]) = unflushed[i][2]]_vars

\* The key of the cache whose most recent successful get or put is the oldest.
Oldest ==
    Head(SelectSeq(recency, LAMBDA x : x \in dict_keys(lru_cache.cache)))

\* C39: an LRUCache of capacity >= 1 never holds more than capacity keys, and
\* a put of a new key into a full cache leaves the keys it held, less the one
\* whose most recent successful get or put is the oldest, plus the new key.
C39_LRUEviction ==
    [][lru_cache.capacity >= 1 =>
          /\ Len(lru_cache.cache)' <= lru_cache.capacity'
          /\ \A k \in CacheKeys, value \in CacheValues :
                 (/\ CachePut(k, value)
                  /\ k \notin dict_keys(lru_cache.cache)
                  /\ Len(lru_cache.cache) >= lru_cache.capacity) =>
                     dict_keys(lru_cache.cache)' =
                         (dict_keys(lru_cache.cache) \ {Oldest}) \cup {k}]_vars

\* A put has just evicted a key that was stored before a key the cache still
\* holds: a get had moved that older key to the end.
C39_Witness ==
    /\ last.op = "put"
    /\ lru_cache.capacity = 2
    /\ lru_cache.stats.evictions = 1
    /\ lru_cache.stats.hits = 1
    /\ Len(recency) = 3
    /\ recency[1] \notin dict_keys(lru_cache.cache)
    /\ recency[3] = last.arg[1]
    /\ dict_keys(lru_cache.cache) = {recency[2], recency[3]}

\* The events of the lists in hs, one list after the other.
RECURSIVE Flatten(_)
Flatten(hs) == IF hs = <<>> THEN <<>> ELSE Head(hs) \o Flatten(Tail(hs))

\* C37: the windows handed to the processors, followed by the window being
\* filled, hold every event passed to add_event once, in the order of arrival.
C37_WindowsPartitionStream == Flatten(handed) \o window.events = arrived

\* C38: a select_server call made while some server of the list is HEALTHY
\* returns a server, and the server it returns is HEALTHY.
C38_SelectsHealthyServer ==
    [][SelectServer =>
          /\ (\E i \in 1 .. Len(servers) : servers[i].health_status = "Healthy")
                 => last'.ret # "None"
          /\ last'.ret # "None"
                 => \E i \in 1 .. Len(servers) :
                        servers[i].id = last'.ret /\ servers[i].health_status = "Healthy"]_vars

====
